---- MODULE Spec2Model ----
(***************************************************************************)
(* Model of the client-side image pipeline of ai-product-image-generator:  *)
(* the TensorFlow.js backend configuration (initTensorFlow), the           *)
(* segmentation model cache (loadModel / clearModelCache), the calls that  *)
(* use it (removeBackground, autoCropImage), the mask compositing of       *)
(* removeBackground, replaceBackground, the bounding box and crop of       *)
(* autoCropImage, the edge-colour heuristic mask, the aggregation of       *)
(* detectProductType, the batch runs of the upload, try-on and detection   *)
(* sections, handleGenerate's pipeline, the gradient background, the       *)
(* detector's model preload and the progress reports of processImage.      *)
(*                                                                         *)
(* JavaScript is single threaded: an async function runs atomically from   *)
(* one await to the next.  Every action below is one such run; the pc of a *)
(* call names the await it is suspended at.                                *)
(***************************************************************************)
EXTENDS Integers, Sequences, FiniteSets, TLC

VARIABLES
    performanceConfig,  \* image-processing.ts:25  module-level profile
    modelCache,         \* image-processing.ts:14  kind -> model object (NoHandle = empty slot)
    loadCount,          \* number of underlying loads started (bodyPix.load, deeplab.load, mobilenet.load)
    tfBackend,          \* the engine's active backend ("none" = not yet initialised)
    tfEnv,              \* tf.env() flags: f16 = WEBGL_FORCE_F16_TEXTURES, del = WEBGL_DELETE_TEXTURE_THRESHOLD
    webglOK,            \* environment: can this browser initialise the webgl backend
    call,               \* the async calls in progress, one record per caller
    last,               \* the call that settled last, as its caller observes it
    detModelStored,     \* IndexedDB holds "default-mobilenet-v2" (model-management)
    resolved,           \* history: kind -> id of the first model a load resolved with since the last clear
    px,                 \* the compositing run of removeBackground (pixels)
    rb,                 \* background-replacement.ts: the replaceBackground call in progress
    crop,               \* the bounding box computation of autoCropImage
    heur,               \* the edge-colour segmentation of the mobilenet strategy
    currentSettings,    \* api-key-settings.tsx:409  detection settings
    det,                \* the aggregation run of detectProductType
    batch,              \* the batch run of a component (upload, try-on, batch detection)
    pipe,               \* the processImage / handleGenerate pipeline run in progress
    grad,               \* the gradient background replaceBackground builds
    detector,           \* product-type-detector.tsx: the component's model loading state
    prog                \* the processImage call whose progress reports are recorded

\* the state of the components that run the library: batches, the pipeline
flowVars == <<batch, pipe, grad, detector, prog>>

\* the state of the computations that never touch the model cache
workVars == <<rb, crop, heur, currentSettings, det, flowVars>>

\* the state of the model cache, the engine and the calls that use them
cacheVars == <<performanceConfig, modelCache, loadCount, tfBackend, tfEnv, webglOK,
               call, last, detModelStored, resolved>>

vars == <<performanceConfig, modelCache, loadCount, tfBackend, tfEnv, webglOK, call,
          last, detModelStored, resolved, px, rb, crop, heur, currentSettings, det,
          batch, pipe, grad, detector, prog>>

(***************************************************************************)
(* Bounds                                                                  *)
(***************************************************************************)
NumCalls == 2      \* concurrent callers
MaxLoads == 2      \* underlying model loads started in one behaviour

Calls == 1..NumCalls
\* undefined: an empty cache slot, a local not yet assigned
NoHandle == [id |-> 0, stale |-> FALSE]

(***************************************************************************)
(* Types of image-processing.ts                                            *)
(***************************************************************************)
SegmentationModel == {"bodypix", "deeplab", "mobilenet"}
Precisions == {"high", "medium", "low"}
MemoryPolicies == {"aggressive", "balanced", "performance"}

DefaultPerformanceConfig ==
    [useWebGL |-> TRUE, useWasm |-> FALSE, useWebGPU |-> FALSE,
     precision |-> "medium", memoryManagement |-> "balanced"]

\* { ...performanceConfig, ...config }: the fields of the partial config win
MergeConfig(cfg, patch) ==
    [f \in DOMAIN cfg |-> IF f \in DOMAIN patch THEN patch[f] ELSE cfg[f]]

\* Partial<PerformanceConfig> values the settings panels pass: one field at a time
ConfigPatches ==
    { [useWebGL |-> b] : b \in BOOLEAN } \cup
    { [useWasm |-> b] : b \in BOOLEAN } \cup
    { [useWebGPU |-> b] : b \in BOOLEAN } \cup
    { [precision |-> p] : p \in Precisions } \cup
    { [memoryManagement |-> m] : m \in MemoryPolicies }

PrecisionPatches == { [precision |-> p] : p \in Precisions }

(***************************************************************************)
(* The TensorFlow.js engine as initTensorFlow uses it                      *)
(***************************************************************************)
\* backends the module's imports register (tfjs brings cpu, line 2 brings webgl)
RegisteredBackends == {"cpu", "webgl"}

BackendSupported(name) == name = "cpu" \/ (name = "webgl" /\ webglOK)

\* tf.findBackend(name): the initialised backend, or null
FindBackend(name) == name \in RegisteredBackends /\ BackendSupported(name)

\* tf.setBackend(name): throws for an unregistered name, else resolves to
\* whether the backend initialised
SetBackendOutcome(name) ==
    IF name \notin RegisteredBackends THEN "throws"
    ELSE IF BackendSupported(name) THEN "true" ELSE "false"

\* the active backend after tf.setBackend(name): a failed initialisation
\* leaves the engine without an instance
BackendAfterSet(name, cur) ==
    CASE SetBackendOutcome(name) = "true" -> name
      [] SetBackendOutcome(name) = "false" -> "none"
      [] OTHER -> cur

\* tf.backend(): initialises the best registered backend when none is active
BackendInstance(cur) ==
    IF cur # "none" THEN cur
    ELSE IF BackendSupported("webgl") THEN "webgl" ELSE "cpu"

\* only the webgl backend has getGPGPUContext()
HasGPGPUContext(backend) == backend = "webgl"

ErrNoGPGPU == <<"TypeError: ", "getGPGPUContext", " is not a function">>
ErrNoBackendName == <<"TypeError: ", "getBackendName", " is not a function">>
ErrNotRegistered(name) == <<"Backend name '", name, "' not found in registry">>

\* lines 54-59: the precision branch of the webgl configuration
PrecisionFlag(cfg, f16) ==
    IF cfg.precision = "high" THEN FALSE
    ELSE IF cfg.precision = "low" THEN TRUE
    ELSE f16

\* lines 67-73: the memory management branch
DeleteThreshold(cfg, del) ==
    IF cfg.memoryManagement = "aggressive" THEN 0
    ELSE IF cfg.memoryManagement = "performance" THEN 1000
    ELSE del


\* lines 41-65 up to the first await: the part of initTensorFlow that runs
\* with the call.  hasName: whether the active backend object answers
\* getBackendName() (line 63) or the call is a TypeError.
TfWebGL(cur) ==
    IF HasGPGPUContext(BackendInstance(cur))
    THEN [pc |-> "tf_gl", backend |-> BackendInstance(cur), err |-> <<>>]
    ELSE [pc |-> "throw", backend |-> BackendInstance(cur), err |-> ErrNoGPGPU]

TfEnter(cfg, cur, hasName) ==
    IF cfg.useWebGL THEN
        IF ~FindBackend("webgl")
        THEN [pc |-> "tf_set", backend |-> BackendAfterSet("webgl", cur), err |-> <<>>]
        ELSE TfWebGL(cur)
    ELSE IF cfg.useWasm THEN
        [pc |-> "tf_wasm", backend |-> BackendAfterSet("wasm", cur), err |-> <<>>]
    ELSE IF cfg.useWebGPU THEN
        IF ~hasName
        THEN [pc |-> "throw", backend |-> BackendInstance(cur), err |-> ErrNoBackendName]
        ELSE [pc |-> "finish", backend |-> BackendInstance(cur), err |-> <<>>]
    ELSE [pc |-> "finish", backend |-> cur, err |-> <<>>]

(***************************************************************************)
(* Calls                                                                   *)
(***************************************************************************)
\* a caller with no call in progress
IdleCall ==
    [op |-> "none", kind |-> "none", pc |-> "idle", model |-> NoHandle,
     load |-> NoHandle, used |-> NoHandle, seen |-> 0]

NoResult ==
    [op |-> "none", kind |-> "none", status |-> "none", model |-> NoHandle,
     load |-> NoHandle, used |-> NoHandle, seen |-> 0, err |-> <<>>, cause |-> <<>>]

\* the message of the Error each function's outermost catch throws
Delivered(op, inner) ==
    CASE op = "removeBackground" -> <<"Failed to remove background from image">>
      [] op = "autoCropImage" -> <<"Failed to auto-crop image">>
      [] op = "detectProductType" -> <<"Failed to detect product type: ">> \o inner
      [] OTHER -> inner

\* the promise of the call rec resolved
Resolved(rec) ==
    [op |-> rec.op, kind |-> rec.kind, status |-> "resolved", model |-> rec.model,
     load |-> rec.load, used |-> rec.used, seen |-> rec.seen, err |-> <<>>, cause |-> <<>>]

\* the promise of the call rec rejected: inner is the error its catch received
Rejected(rec, inner) ==
    [op |-> rec.op, kind |-> rec.kind, status |-> "rejected", model |-> rec.model,
     load |-> rec.load, used |-> rec.used, seen |-> rec.seen,
     err |-> Delivered(rec.op, inner), cause |-> inner]

\* call c settles with result r and its caller is free for another call
Settle(c, r) ==
    /\ call' = [call EXCEPT ![c] = IdleCall]
    /\ last' = r

\* call c goes on as rec
Continue(c, rec) ==
    /\ call' = [call EXCEPT ![c] = rec]
    /\ last' = last

\* the effect of one run of initTensorFlow that ended as r says
TfStep(c, base, r) ==
    /\ tfBackend' = r.backend
    /\ tfEnv' = IF r.pc = "finish"
                THEN [tfEnv EXCEPT !.del = DeleteThreshold(performanceConfig', @)]
                ELSE tfEnv
    /\ IF r.pc = "throw" THEN Settle(c, Rejected(base, r.err))
       ELSE IF r.pc = "finish" THEN
            IF base.op = "initTensorFlow" THEN Settle(c, Resolved(base))
            ELSE Continue(c, [base EXCEPT !.pc = "tf_done"])
       ELSE Continue(c, [base EXCEPT !.pc = r.pc])

\* initTensorFlow(config): lines 34-45
CallInitTensorFlow(c, patch, hasName) ==
    /\ call[c].pc = "idle"
    /\ performanceConfig' = MergeConfig(performanceConfig, patch)
    /\ TfStep(c, [IdleCall EXCEPT !.op = "initTensorFlow"],
              TfEnter(performanceConfig', tfBackend, hasName))
    /\ UNCHANGED <<modelCache, loadCount, webglOK, detModelStored, resolved, px, workVars>>

\* line 44 resolved: line 48
TfResumeSet(c) ==
    /\ call[c].pc = "tf_set"
    /\ TfStep(c, call[c], TfWebGL(tfBackend))
    /\ UNCHANGED <<performanceConfig, modelCache, loadCount, webglOK, detModelStored,
                   resolved, px, workVars>>

\* line 48 resolved: lines 49-60, then 67-79
TfResumeGl(c) ==
    /\ call[c].pc = "tf_gl"
    /\ tfEnv' = [f16 |-> PrecisionFlag(performanceConfig, tfEnv.f16),
                 del |-> DeleteThreshold(performanceConfig, tfEnv.del)]
    /\ IF call[c].op = "initTensorFlow" THEN Settle(c, Resolved(call[c]))
       ELSE Continue(c, [call[c] EXCEPT !.pc = "tf_done"])
    /\ UNCHANGED <<performanceConfig, modelCache, loadCount, tfBackend, webglOK,
                   detModelStored, resolved, px, workVars>>

\* line 62 settled: the rejection of setBackend is thrown here, else 67-79
TfResumeWasm(c) ==
    /\ call[c].pc = "tf_wasm"
    /\ TfStep(c, call[c],
              IF SetBackendOutcome("wasm") = "throws"
              THEN [pc |-> "throw", backend |-> tfBackend, err |-> ErrNotRegistered("wasm")]
              ELSE [pc |-> "finish", backend |-> tfBackend, err |-> <<>>])
    /\ UNCHANGED <<performanceConfig, modelCache, loadCount, webglOK, detModelStored,
                   resolved, px, workVars>>

\* lines 105-116, 123-124, 131-132: the parameters a load is started with
\* (multiplier and alpha in hundredths)
LoadParams(kind, cfg) ==
    CASE kind = "bodypix" ->
           [multiplier |-> IF cfg.precision = "high" THEN 100
                           ELSE IF cfg.precision = "medium" THEN 75 ELSE 50,
            outputStride |-> IF cfg.precision = "high" THEN 16
                             ELSE IF cfg.precision = "medium" THEN 16 ELSE 32,
            quantBytes |-> IF cfg.precision = "high" THEN 4 ELSE 2]
      [] kind = "deeplab" ->
           [base |-> IF cfg.precision = "high" THEN "pascal" ELSE "mobilenetv2",
            quantizationBytes |-> IF cfg.precision = "high" THEN 4 ELSE 2]
      [] OTHER ->
           [version |-> 2, alpha |-> IF cfg.precision = "high" THEN 100 ELSE 50]

\* a profile change that also re-derives the parameters of the cached models
UpdateReconfiguresCache(patch) ==
    /\ performanceConfig' = MergeConfig(performanceConfig, patch)
    /\ performanceConfig' # performanceConfig
    /\ modelCache' = [k \in DOMAIN modelCache |->
                        IF modelCache[k] = NoHandle THEN NoHandle
                        ELSE [modelCache[k] EXCEPT !.cfg = LoadParams(k, performanceConfig')]]
    /\ UNCHANGED <<loadCount, tfBackend, tfEnv, webglOK, call, last,
                   detModelStored, resolved, px, workVars>>

\* updatePerformanceConfig: lines 592-594
UpdatePerformanceConfig(patch) ==
    /\ performanceConfig' = MergeConfig(performanceConfig, patch)
    /\ performanceConfig' # performanceConfig
    /\ UNCHANGED <<modelCache, loadCount, tfBackend, tfEnv, webglOK, call, last,
                   detModelStored, resolved, px, workVars>>

(***************************************************************************)
(* The model cache: loadModel, clearModelCache                             *)
(***************************************************************************)
\* lines 112, 122, 130: the model object the started load will resolve with;
\* its parameters are fixed when the load is called.  stale (history): the
\* load was in flight when clearModelCache ran.
StartLoad(kind) ==
    [id |-> loadCount + 1, cfg |-> LoadParams(kind, performanceConfig), stale |-> FALSE]

ErrNetwork == <<"Failed to fetch">>

\* line 141: the Error loadModel's catch throws
LoadModelError(kind, inner) == <<"Failed to load ", kind, " model: ">> \o inner

\* lines 90-97: the slot that answers a loadModel call, NoHandle to load
CachedModel(kind) == modelCache[kind]

\* lines 90-117 up to the await: the cached handle, or the start of a load
LoadModelEnter(c, base, kind) ==
    IF CachedModel(kind) # NoHandle
    THEN /\ loadCount' = loadCount
         /\ IF base.op = "loadModel"
            THEN Settle(c, Resolved([base EXCEPT !.kind = kind, !.model = CachedModel(kind),
                                                 !.seen = resolved[kind]]))
            ELSE Continue(c, [base EXCEPT !.model = CachedModel(kind),
                                          !.seen = resolved[kind], !.pc = "lm_ret"])
    ELSE /\ loadCount < MaxLoads
         /\ loadCount' = loadCount + 1
         /\ Continue(c, [base EXCEPT !.kind = kind, !.load = StartLoad(kind),
                                     !.seen = resolved[kind], !.pc = "lm_await"])

\* loadModel(modelType) called directly
CallLoadModel(c, kind) ==
    /\ call[c].pc = "idle"
    /\ LoadModelEnter(c, [IdleCall EXCEPT !.op = "loadModel"], kind)
    /\ UNCHANGED <<performanceConfig, modelCache, tfBackend, tfEnv, webglOK,
                   detModelStored, resolved, px, workVars>>

\* lines 112-119, 122-127, 130-135: the underlying load resolved
LoadResolve(c) ==
    /\ call[c].pc = "lm_await"
    /\ modelCache' = [modelCache EXCEPT ![call[c].kind] = call[c].load]
    /\ IF call[c].op = "loadModel"
       THEN Settle(c, Resolved([call[c] EXCEPT !.model = modelCache'[call[c].kind]]))
       ELSE Continue(c, [call[c] EXCEPT !.model = modelCache'[call[c].kind], !.pc = "lm_ret"])
    /\ resolved' = IF resolved[call[c].kind] = 0
                   THEN [resolved EXCEPT ![call[c].kind] = call[c].load.id]
                   ELSE resolved
    /\ UNCHANGED <<performanceConfig, loadCount, tfBackend, tfEnv, webglOK,
                   detModelStored, px, workVars>>

\* a catch block that drops every cached model when one load fails
CacheClearedOnFailedLoad(cache, kind) == [k \in DOMAIN cache |-> NoHandle]

\* the cache after a load of kind was rejected: the assignment of line 112
\* (122, 130) is never reached
CacheAfterFailedLoad(cache, kind) == cache

\* lines 139-142: the underlying load rejected
LoadFail(c) ==
    /\ call[c].pc = "lm_await"
    /\ modelCache' = CacheAfterFailedLoad(modelCache, call[c].kind)
    /\ Settle(c, Rejected(call[c], LoadModelError(call[c].kind, ErrNetwork)))
    /\ UNCHANGED <<performanceConfig, loadCount, tfBackend, tfEnv, webglOK,
                   detModelStored, resolved, px, workVars>>

\* clearModelCache: lines 597-601
ClearModelCache ==
    /\ modelCache' = [k \in SegmentationModel |-> NoHandle]
    /\ resolved' = [k \in SegmentationModel |-> 0]
    /\ call' = [c \in Calls |->
                  IF call[c].pc = "lm_await"
                  THEN [call[c] EXCEPT !.load = [@ EXCEPT !.stale = TRUE]]
                  ELSE call[c]]
    /\ <<modelCache', call'>> # <<modelCache, call>>
    /\ UNCHANGED <<performanceConfig, loadCount, tfBackend, tfEnv, webglOK, last,
                   detModelStored, px, workVars>>

(***************************************************************************)
(* removeBackground and autoCropImage: the steps around the model          *)
(***************************************************************************)
SegmentationOps == {"removeBackground", "autoCropImage"}

\* lines 168-171 (380-383): the call, up to the first await of initTensorFlow()
CallSegmentation(c, op, kind, hasName) ==
    /\ call[c].pc = "idle"
    /\ performanceConfig' = performanceConfig
    /\ TfStep(c, [IdleCall EXCEPT !.op = op, !.kind = kind],
              TfEnter(performanceConfig, tfBackend, hasName))
    /\ UNCHANGED <<modelCache, loadCount, webglOK, detModelStored, resolved, px, workVars>>

\* lines 174-175 (386-387): initTensorFlow() returned, loadModel is entered
SegLoadModel(c) ==
    /\ call[c].pc = "tf_done"
    /\ LoadModelEnter(c, call[c], call[c].kind)
    /\ UNCHANGED <<performanceConfig, modelCache, tfBackend, tfEnv, webglOK,
                   detModelStored, resolved, px, workVars>>

\* lines 178-188 (390-399): loadModel returned, the image decode is started
SegStartImage(c) ==
    /\ call[c].pc = "lm_ret"
    /\ Continue(c, [call[c] EXCEPT !.pc = "img"])
    /\ UNCHANGED <<performanceConfig, modelCache, loadCount, tfBackend, tfEnv, webglOK,
                   detModelStored, resolved, px, workVars>>

\* a segmentation that reads the cache slot again when it runs
SegmentationHandleFromCache(c) == modelCache[call[c].kind]

\* the handle the segmentation runs on: the local `model` of line 175 (387)
SegmentationHandle(c) == call[c].model

ErrNoModel == <<"TypeError: ", "Cannot read properties of undefined", " (the model)">>
ErrImageEvent == <<"[object Event]">>

\* lines 195-209 (402-429): the image decoded, the model is run on it
SegImageLoaded(c) ==
    /\ call[c].pc = "img"
    /\ IF SegmentationHandle(c) = NoHandle
       THEN Settle(c, Rejected(call[c], ErrNoModel))
       ELSE Continue(c, [call[c] EXCEPT !.used = SegmentationHandle(c), !.pc = "seg"])
    /\ UNCHANGED <<performanceConfig, modelCache, loadCount, tfBackend, tfEnv, webglOK,
                   detModelStored, resolved, px, workVars>>

\* lines 189-192 (no inner catch in autoCropImage): the error of a failed decode
ImageError(op) ==
    IF op = "removeBackground" THEN <<"Failed to load image: ">> \o ErrImageEvent
    ELSE ErrImageEvent

\* lines 186, 363-366 (397, 520-523): the image failed to decode
SegImageError(c) ==
    /\ call[c].pc = "img"
    /\ Settle(c, Rejected(call[c], ImageError(call[c].op)))
    /\ UNCHANGED <<performanceConfig, modelCache, loadCount, tfBackend, tfEnv, webglOK,
                   detModelStored, resolved, px, workVars>>

ErrMaskUndefined == <<"TypeError: ", "Cannot read properties of undefined", " (reading 'width')">>
ErrToMask == <<"TypeError: ", "foregroundIds.some", " is not a function">>

\* lines 262-308: what building the mask throws, <<>> when it throws nothing.
\* deeplab: the `let mask` of line 269 shadows the one of line 263, which is
\* still undefined at line 308.  bodypix: toMask is library code that is
\* handed edgeBlur where it takes a list of part ids, so both outcomes are kept.
MaskErrors(op, kind) ==
    IF op # "removeBackground" THEN {<<>>}
    ELSE CASE kind = "deeplab" -> {ErrMaskUndefined}
           [] kind = "bodypix" -> {<<>>, ErrToMask}
           [] OTHER -> {<<>>}

\* lines 250-366 (465-523): the model answered; the canvas work has no await
SegDone(c) ==
    /\ call[c].pc = "seg"
    /\ \E e \in MaskErrors(call[c].op, call[c].kind) :
          IF e = <<>> THEN Settle(c, Resolved(call[c]))
          ELSE Settle(c, Rejected(call[c], e))
    /\ UNCHANGED <<performanceConfig, modelCache, loadCount, tfBackend, tfEnv, webglOK,
                   detModelStored, resolved, px, workVars>>

(***************************************************************************)
(* detectProductType: the load of the classification model                 *)
(***************************************************************************)
ErrDetectionModel(inner) == <<"Failed to load detection model: ">> \o inner
ErrIdb == <<"Cannot read properties of undefined">>

\* lines 513-516, 423-427: the call, up to the await of modelExists(modelId)
CallDetectProductType(c) ==
    /\ call[c].pc = "idle"
    /\ Continue(c, [IdleCall EXCEPT !.op = "detectProductType", !.pc = "dp_exists"])
    /\ UNCHANGED <<performanceConfig, modelCache, loadCount, tfBackend, tfEnv, webglOK,
                   detModelStored, resolved, px, workVars>>

\* lines 427-434: the stored model is loaded, or the default model is cached first
DetExists(c) ==
    /\ call[c].pc = "dp_exists"
    /\ Continue(c, [call[c] EXCEPT !.pc = IF detModelStored THEN "dp_idb" ELSE "dp_cache"])
    /\ UNCHANGED <<performanceConfig, modelCache, loadCount, tfBackend, tfEnv, webglOK,
                   detModelStored, resolved, px, workVars>>

\* lines 879-897, 435-436: the default model was downloaded and saved
DetCacheOk(c) ==
    /\ call[c].pc = "dp_cache"
    /\ detModelStored' = TRUE
    /\ Continue(c, [call[c] EXCEPT !.pc = "dp_idb"])
    /\ UNCHANGED <<performanceConfig, modelCache, loadCount, tfBackend, tfEnv, webglOK,
                   resolved, px, workVars>>

\* lines 898-901, 441-443: the download or the save failed: null, then the direct load
DetCacheFail(c) ==
    /\ call[c].pc = "dp_cache"
    /\ Continue(c, [call[c] EXCEPT !.pc = "dp_direct"])
    /\ UNCHANGED <<performanceConfig, modelCache, loadCount, tfBackend, tfEnv, webglOK,
                   detModelStored, resolved, px, workVars>>

\* lines 753-767, 516: the model came out of IndexedDB
DetIdbOk(c) ==
    /\ call[c].pc = "dp_idb"
    /\ Settle(c, Resolved(call[c]))
    /\ UNCHANGED <<performanceConfig, modelCache, loadCount, tfBackend, tfEnv, webglOK,
                   detModelStored, resolved, px, workVars>>

\* lines 764, 598-601: tf.loadLayersModel threw
DetIdbFail(c) ==
    /\ call[c].pc = "dp_idb"
    /\ Settle(c, Rejected(call[c], ErrIdb))
    /\ UNCHANGED <<performanceConfig, modelCache, loadCount, tfBackend, tfEnv, webglOK,
                   detModelStored, resolved, px, workVars>>

\* lines 443-447: the direct mobilenet.load resolved
DetDirectOk(c) ==
    /\ call[c].pc = "dp_direct"
    /\ Settle(c, Resolved(call[c]))
    /\ UNCHANGED <<performanceConfig, modelCache, loadCount, tfBackend, tfEnv, webglOK,
                   detModelStored, resolved, px, workVars>>

\* lines 448-451, 598-601: the direct mobilenet.load rejected
DetDirectFail(c) ==
    /\ call[c].pc = "dp_direct"
    /\ Settle(c, Rejected(call[c], ErrDetectionModel(ErrNetwork)))
    /\ UNCHANGED <<performanceConfig, modelCache, loadCount, tfBackend, tfEnv, webglOK,
                   detModelStored, resolved, px, workVars>>

(***************************************************************************)
(* removeBackground: the canvas work on the pixels, lines 250-362.  A pixel *)
(* is a grey level c and an alpha byte a (0..255), not premultiplied.  The *)
(* alpha of a colour option is a fraction a / AlphaSteps of 1.             *)
(***************************************************************************)
PxCount == 2       \* pixels of the image
AlphaSteps == 2    \* colour alphas are 0, 1/AlphaSteps, .., 1
MaxRounds == 1     \* times removeBackground is applied again to its own output
Positions == 1..PxCount
SourceColors == {60, 200}
Alphas == 0..AlphaSteps
Undefined == [c |-> -1, a |-> 0]
ForegroundOptions == {Undefined} \cup [c : {0}, a : Alphas]
BackgroundOptions == {Undefined} \cup [c : {255, 128}, a : Alphas]
MaskKinds == {"deeplab", "mobilenet"}
Transparent == [c |-> 0, a |-> 0]

DefaultForegroundColor == [c |-> 0, a |-> 0]
DefaultBackgroundColor == [c |-> 255, a |-> AlphaSteps]
OrDefault(opt, def) == IF opt = Undefined THEN def ELSE opt

\* line 296 (279): the alpha byte the Uint8ClampedArray keeps of color.a * 255,
\* rounded to the nearest byte
AlphaByte(a) ==
    LET byte == (2 * a * 255 + AlphaSteps) \div (2 * AlphaSteps)
    IN IF byte > 255 THEN 255 ELSE byte

\* lines 291-296: one pixel of the mask
MaskPixel(isForeground, foregroundColor, backgroundColor) ==
    IF isForeground
    THEN [c |-> foregroundColor.c, a |-> AlphaByte(foregroundColor.a)]
    ELSE [c |-> backgroundColor.c, a |-> AlphaByte(backgroundColor.a)]

\* lines 286-300: the mask image of the custom segmentation
CustomMask(data, foregroundColor, backgroundColor) ==
    [i \in DOMAIN data |-> MaskPixel(data[i] = 1, foregroundColor, backgroundColor)]

\* globalCompositeOperation "destination-in": the destination is kept in
\* proportion to the alpha of what is drawn, whose colour is ignored
DestinationIn(dst, src) ==
    LET a == (dst.a * src.a) \div 255
    IN IF a = 0 THEN Transparent ELSE [c |-> dst.c, a |-> a]

\* globalCompositeOperation "source-over": src drawn over dst
SourceOver(dst, src) ==
    LET a == src.a + (dst.a * (255 - src.a)) \div 255
    IN IF a = 0 THEN Transparent
       ELSE [c |-> (src.c * src.a * 255 + dst.c * dst.a * (255 - src.a)) \div (a * 255),
             a |-> a]

\* lines 320-329: the image drawn on the cleared canvas, the mask drawn into it
MaskedCanvas(img, mask) ==
    [i \in DOMAIN img |-> DestinationIn(img[i], mask[i])]

\* lines 347-348: fillRect with rgba(r, g, b, a) on a new canvas
FillPixel(color) ==
    IF AlphaByte(color.a) = 0 THEN Transparent
    ELSE [c |-> color.c, a |-> AlphaByte(color.a)]

\* lines 335-362: the canvas, drawn over the background color if that has alpha
FlattenedOutput(canvas, backgroundColor) ==
    IF backgroundColor.a > 0
    THEN [i \in DOMAIN canvas |-> SourceOver(FillPixel(backgroundColor), canvas[i])]
    ELSE canvas

\* lines 286-362: the image removeBackground returns for a custom segmentation
RemoveBackgroundOutput(img, data, foregroundColor, backgroundColor) ==
    FlattenedOutput(MaskedCanvas(img, CustomMask(data, foregroundColor, backgroundColor)),
                    backgroundColor)

\* line 304: the decoded image, opaque
OpaqueImage(colors) == [i \in DOMAIN colors |-> [c |-> colors[i], a |-> 255]]

\* lines 158-166, 198-248: a call whose image decoded to img and whose
\* segmentation classified position i as foreground iff data[i] = 1
PxCall(kind, img, data, fgOpt, bgOpt) ==
    /\ px.pc = "idle"
    /\ px' = [pc |-> "mask", kind |-> kind, img |-> OpaqueImage(img), data |-> data,
              foregroundColor |-> OrDefault(fgOpt, DefaultForegroundColor),
              backgroundColor |-> OrDefault(bgOpt, DefaultBackgroundColor),
              defaults |-> (fgOpt = Undefined /\ bgOpt = Undefined),
              mask |-> <<>>, canvas |-> <<>>, out |-> <<>>, prev |-> <<>>, round |-> 0]
    /\ UNCHANGED <<cacheVars, workVars>>

\* removeBackground called on the image it returned, with the same
\* segmentation and colors
PxReapply ==
    /\ px.pc = "done"
    /\ px.round < MaxRounds
    /\ px' = [px EXCEPT !.pc = "mask", !.img = px.out, !.prev = px.out,
                        !.round = @ + 1, !.mask = <<>>, !.canvas = <<>>, !.out = <<>>]
    /\ UNCHANGED <<cacheVars, workVars>>

\* lines 262-317, 363-366: the mask is built and put on its canvas
PxBuildMask ==
    /\ px.pc = "mask"
    /\ px' = IF MaskErrors("removeBackground", px.kind) = {ErrMaskUndefined}
             THEN [px EXCEPT !.pc = "failed"]
             ELSE [px EXCEPT !.pc = "composite",
                             !.mask = CustomMask(px.data, px.foregroundColor,
                                                 px.backgroundColor)]
    /\ UNCHANGED <<cacheVars, workVars>>

\* lines 320-332: the image is drawn and the mask is drawn into it
PxComposite ==
    /\ px.pc = "composite"
    /\ px' = [px EXCEPT !.pc = "flatten", !.canvas = MaskedCanvas(px.img, px.mask)]
    /\ UNCHANGED <<cacheVars, workVars>>

\* lines 335-362: the canvas is returned, over the background color if it has alpha
PxFlatten ==
    /\ px.pc = "flatten"
    /\ px' = [px EXCEPT !.pc = "done",
                        !.out = FlattenedOutput(px.canvas, px.backgroundColor)]
    /\ UNCHANGED <<cacheVars, workVars>>

(***************************************************************************)
(* replaceBackground (background-replacement.ts): the cutout made by       *)
(* removeBackground is drawn over the rendered background                  *)
(***************************************************************************)
BackgroundTypes == {"color", "image", "gradient", "blur"}
BackgroundColors == {255, 128}

\* lines 65-66: the colors replaceBackground hands to removeBackground
CutoutForegroundColor == [c |-> 0, a |-> 0]
CutoutBackgroundColor == [c |-> 0, a |-> 0]

\* lines 61-70: the image removeBackground resolves with
Cutout(img, data) ==
    RemoveBackgroundOutput(OpaqueImage(img), data, CutoutForegroundColor,
                           CutoutBackgroundColor)

\* lines 84-86: the new canvas
BlankCanvas == [i \in Positions |-> Transparent]

\* lines 94-194: the canvas after the background of the type was drawn;
\* render is what the fill, the gradient, the scaled image or the blurred
\* original puts at each position.  Type image draws nothing without an image.
BackgroundCanvas(type, hasImage, render) ==
    IF type = "image" /\ ~hasImage THEN BlankCanvas
    ELSE [i \in Positions |-> SourceOver(BlankCanvas[i], [c |-> render[i], a |-> 255])]

\* line 198: the cutout drawn over the background
Composite(background, cutout) ==
    [i \in Positions |-> SourceOver(background[i], cutout[i])]

\* a catch block that returns what the canvas holds when an image fails to load
ReplaceFailureReturnsCanvas(r, which) ==
    [r EXCEPT !.pc = "done", !.loadError = which, !.out = r.canvas]

\* lines 204-207: the catch of replaceBackground; which names the load that failed
ReplaceFailure(r, which) ==
    [r EXCEPT !.pc = "failed", !.loadError = which]

\* lines 196-203: the cutout is drawn over background and the canvas returned
ReplaceDone(r, background) ==
    [r EXCEPT !.pc = "done", !.canvas = background,
              !.out = Composite(background, r.cutout)]

\* lines 53-70: the call, up to the await of removeBackground
RbCall(type, hasImage, kind, img, data, render) ==
    /\ rb.pc = "idle"
    /\ rb' = [pc |-> "remove", type |-> type, hasImage |-> hasImage, kind |-> kind,
              img |-> img, data |-> data, render |-> render, cutout |-> <<>>,
              canvas |-> <<>>, out |-> <<>>, loadError |-> "none"]
    /\ UNCHANGED <<cacheVars, flowVars, px, crop, heur, currentSettings, det>>

\* lines 61-81: removeBackground settled; ok: its model loaded and its image decoded
RbRemoved(ok) ==
    /\ rb.pc = "remove"
    /\ rb' = IF ok /\ MaskErrors("removeBackground", rb.kind) # {ErrMaskUndefined}
             THEN [rb EXCEPT !.pc = "foreground", !.cutout = Cutout(rb.img, rb.data)]
             ELSE ReplaceFailure(rb, "removeBackground")
    /\ UNCHANGED <<cacheVars, flowVars, px, crop, heur, currentSettings, det>>

\* lines 77-194: the cutout decoded; the background is drawn, or its image awaited
RbForegroundLoaded ==
    /\ rb.pc = "foreground"
    /\ rb' = CASE rb.type = "image" /\ rb.hasImage ->
                    [rb EXCEPT !.pc = "background", !.canvas = BlankCanvas]
               [] rb.type = "blur" ->
                    [rb EXCEPT !.pc = "original", !.canvas = BlankCanvas]
               [] OTHER ->
                    ReplaceDone(rb, BackgroundCanvas(rb.type, rb.hasImage, rb.render))
    /\ UNCHANGED <<cacheVars, flowVars, px, crop, heur, currentSettings, det>>

\* line 79: the cutout failed to decode
RbForegroundError ==
    /\ rb.pc = "foreground"
    /\ rb' = ReplaceFailure(rb, "foreground")
    /\ UNCHANGED <<cacheVars, flowVars, px, crop, heur, currentSettings, det>>

\* lines 126-157, 196-203: the background image decoded
RbBackgroundLoaded ==
    /\ rb.pc = "background"
    /\ rb' = ReplaceDone(rb, BackgroundCanvas(rb.type, rb.hasImage, rb.render))
    /\ UNCHANGED <<cacheVars, flowVars, px, crop, heur, currentSettings, det>>

\* line 128: the background image failed to decode
RbBackgroundError ==
    /\ rb.pc = "background"
    /\ rb' = ReplaceFailure(rb, "background")
    /\ UNCHANGED <<cacheVars, flowVars, px, crop, heur, currentSettings, det>>

\* lines 174-193, 196-203: the original image decoded for the blur
RbOriginalLoaded ==
    /\ rb.pc = "original"
    /\ rb' = ReplaceDone(rb, BackgroundCanvas(rb.type, rb.hasImage, rb.render))
    /\ UNCHANGED <<cacheVars, flowVars, px, crop, heur, currentSettings, det>>

\* line 176: the original image failed to decode
RbOriginalError ==
    /\ rb.pc = "original"
    /\ rb' = ReplaceFailure(rb, "original")
    /\ UNCHANGED <<cacheVars, flowVars, px, crop, heur, currentSettings, det>>

(***************************************************************************)
(* autoCropImage: the bounding box of the mask, lines 465-506.  Positions  *)
(* are (x, y) with 0 <= x < width and 0 <= y < height, index y * width + x *)
(***************************************************************************)
GridW == 3         \* width of the segmentation
GridH == 2         \* height of the segmentation
GridCells == 0..(GridW * GridH - 1)
GridMasks == [GridCells -> {0, 1}]
\* the padding option in percent (default 0.1, line 378)
Paddings == {0, 10, 50, 100}

MinOf(S) == CHOOSE m \in S : \A n \in S : m <= n
MaxOf(S) == CHOOSE m \in S : \A n \in S : m >= n

\* lines 471-487: Math.min / Math.max over the positions with mask[i] === 1,
\* starting from minX = width, minY = height, maxX = 0, maxY = 0
BoundingBox(mask, width, height) ==
    LET xs == { x \in 0..(width - 1) : \E y \in 0..(height - 1) : mask[y * width + x] = 1 }
        ys == { y \in 0..(height - 1) : \E x \in 0..(width - 1) : mask[y * width + x] = 1 }
    IN [minX |-> MinOf(xs \cup {width}), minY |-> MinOf(ys \cup {height}),
        maxX |-> MaxOf(xs \cup {0}), maxY |-> MaxOf(ys \cup {0})]

\* lines 490-491: Math.floor((max - min) * padding)
PaddingOf(min, max, padding) == ((max - min) * padding) \div 100

\* lines 489-496: the box with its padding, clamped to the image
PaddedBox(box, width, height, padding) ==
    LET paddingX == PaddingOf(box.minX, box.maxX, padding)
        paddingY == PaddingOf(box.minY, box.maxY, padding)
    IN [minX |-> MaxOf({0, box.minX - paddingX}),
        minY |-> MaxOf({0, box.minY - paddingY}),
        maxX |-> MinOf({width, box.maxX + paddingX}),
        maxY |-> MinOf({height, box.maxY + paddingY})]

\* lines 498-500: the crop dimensions
CropWidth(box) == box.maxX - box.minX
CropHeight(box) == box.maxY - box.minY

\* lines 465-469: the segmentation is in, the box is about to be computed
CropCall(mask, padding) ==
    /\ crop.pc = "idle"
    /\ crop' = [pc |-> "box", mask |-> mask, padding |-> padding]
    /\ UNCHANGED <<cacheVars, flowVars, px, rb, heur, currentSettings, det>>

\* lines 471-487
CropBox ==
    /\ crop.pc = "box"
    /\ crop' = [pc |-> "pad", mask |-> crop.mask, padding |-> crop.padding,
                box |-> BoundingBox(crop.mask, GridW, GridH)]
    /\ UNCHANGED <<cacheVars, flowVars, px, rb, heur, currentSettings, det>>

\* lines 489-496
CropPad ==
    /\ crop.pc = "pad"
    /\ crop' = [pc |-> "size", mask |-> crop.mask, padding |-> crop.padding,
                box |-> crop.box,
                padded |-> PaddedBox(crop.box, GridW, GridH, crop.padding)]
    /\ UNCHANGED <<cacheVars, flowVars, px, rb, heur, currentSettings, det>>

\* lines 498-506
CropSize ==
    /\ crop.pc = "size"
    /\ crop' = [pc |-> "done", mask |-> crop.mask, padding |-> crop.padding,
                box |-> crop.box, padded |-> crop.padded,
                cropWidth |-> CropWidth(crop.padded),
                cropHeight |-> CropHeight(crop.padded)]
    /\ UNCHANGED <<cacheVars, flowVars, px, rb, heur, currentSettings, det>>

(***************************************************************************)
(* The mobilenet strategy of removeBackground: a mask from the difference  *)
(* of each pixel to the average red value of the edge pixels, lines        *)
(* 221-247.  A pixel is <<r, g, b>>; the threshold is in percent.          *)
(***************************************************************************)
HeurW == 2         \* width of the image the heuristic reads
HeurH == 2         \* height of the image the heuristic reads
HeurCells == 0..(HeurW * HeurH - 1)
RgbColors == {<<0, 0, 0>>, <<255, 255, 255>>, <<0, 90, 90>>}
HeurImages == [HeurCells -> RgbColors]
Thresholds == {0, 70, 100}

Abs(n) == IF n < 0 THEN -n ELSE n

RECURSIVE SumSeq(_)
SumSeq(seq) == IF seq = <<>> THEN 0 ELSE seq[1] + SumSeq(Tail(seq))

\* lines 225-233: the red values pushed for the top and bottom row of every
\* column, then for the left and right column of every row
EdgePixels(image, width, height) ==
    LET rows == [k \in 1..(2 * width) |->
                    LET x == (k - 1) \div 2
                    IN IF k % 2 = 1 THEN image[0 * width + x][1]
                       ELSE image[(height - 1) * width + x][1]]
        cols == [k \in 1..(2 * height) |->
                    LET y == (k - 1) \div 2
                    IN IF k % 2 = 1 THEN image[y * width + 0][1]
                       ELSE image[y * width + (width - 1)][1]]
    IN rows \o cols

\* lines 240-243 with avgEdgeColor = sum / count (line 236): colorDiff * count
ColorDiffTimes(pixel, sum, count) ==
    Abs(pixel[1] * count - sum) + Abs(pixel[2] * count - sum) + Abs(pixel[3] * count - sum)

\* a comparison that also takes a difference equal to the threshold
IsForegroundAtLeast(pixel, sum, count, threshold) ==
    ColorDiffTimes(pixel, sum, count) * 100 >= threshold * 255 * count

\* line 244: colorDiff > threshold * 255
IsForeground(pixel, sum, count, threshold) ==
    ColorDiffTimes(pixel, sum, count) * 100 > threshold * 255 * count

\* lines 206-222: the image is drawn and read back
HeurCall(image, threshold) ==
    /\ heur.pc = "idle"
    /\ heur' = [pc |-> "edges", image |-> image, threshold |-> threshold]
    /\ UNCHANGED <<cacheVars, flowVars, px, rb, crop, currentSettings, det>>

\* lines 224-236
HeurEdges ==
    /\ heur.pc = "edges"
    /\ heur' = [pc |-> "mask", image |-> heur.image, threshold |-> heur.threshold,
                edgePixels |-> EdgePixels(heur.image, HeurW, HeurH)]
    /\ UNCHANGED <<cacheVars, flowVars, px, rb, crop, currentSettings, det>>

\* lines 238-247
HeurMask ==
    /\ heur.pc = "mask"
    /\ heur' = [pc |-> "done", image |-> heur.image, threshold |-> heur.threshold,
                edgePixels |-> heur.edgePixels,
                data |-> [i \in HeurCells |->
                            IF IsForeground(heur.image[i], SumSeq(heur.edgePixels),
                                            Len(heur.edgePixels), heur.threshold)
                            THEN 1 ELSE 0]]
    /\ UNCHANGED <<cacheVars, flowVars, px, rb, crop, currentSettings, det>>

(***************************************************************************)
(* detectProductType: thresholding and aggregation of the top predictions, *)
(* api-key-settings.tsx lines 547-597.  Probabilities and the threshold    *)
(* are in percent; a mean is kept as the fraction num / den.               *)
(***************************************************************************)
MaxPredictions == 3    \* predictions getTopKClasses returns
Labels == {"ski", "kite", "toy", "ice cream, icecream"}
Probabilities == {0, 30, 40, 60}
DetectionThresholds == {0, 20, 50}
NoType == "undefined"

\* lines 198-380: productTypeMapping[className]
ProductTypeMapping(className) ==
    CASE className = "ski" -> "sports"
      [] className = "kite" -> "toys"
      [] className = "toy" -> "toys"
      [] OTHER -> NoType

\* lines 486-501: up to topK predictions of distinct classes, sorted by
\* probability in descending order
TopPredictions ==
    UNION { { preds \in [1..n -> [className : Labels, probability : Probabilities]] :
                /\ \A i, j \in 1..n : i # j => preds[i].className # preds[j].className
                /\ \A i \in 1..n : i < n => preds[i].probability >= preds[i + 1].probability }
            : n \in 0..MaxPredictions }

\* a filter that keeps the predictions at or below the threshold
BelowThreshold(prediction, confidenceThreshold) ==
    prediction.probability <= confidenceThreshold

\* line 550
PassesThreshold(prediction, confidenceThreshold) ==
    prediction.probability >= confidenceThreshold

\* lines 549-551
RECURSIVE FilteredPredictions(_, _)
FilteredPredictions(preds, confidenceThreshold) ==
    IF preds = <<>> THEN <<>>
    ELSE (IF PassesThreshold(Head(preds), confidenceThreshold) THEN <<Head(preds)>> ELSE <<>>)
         \o FilteredPredictions(Tail(preds), confidenceThreshold)

\* lines 560-567: one prediction added to productTypeCounts, whose keys are
\* kept in insertion order
AddPrediction(counts, prediction) ==
    LET mappedType == ProductTypeMapping(prediction.className)
    IN IF mappedType = NoType THEN counts
       ELSE IF \E k \in DOMAIN counts : counts[k].typeId = mappedType
       THEN [k \in DOMAIN counts |->
               IF counts[k].typeId = mappedType
               THEN [typeId |-> mappedType, count |-> counts[k].count + 1,
                     confidence |-> counts[k].confidence + prediction.probability]
               ELSE counts[k]]
       ELSE Append(counts, [typeId |-> mappedType, count |-> 1,
                            confidence |-> prediction.probability])

\* lines 557-568
RECURSIVE ProductTypeCounts(_, _)
ProductTypeCounts(filtered, counts) ==
    IF filtered = <<>> THEN counts
    ELSE ProductTypeCounts(Tail(filtered), AddPrediction(counts, Head(filtered)))

\* a confidence that is the sum of the probabilities
SumConfidence(data) == [num |-> data.confidence, den |-> 1]

\* line 576: data.confidence / data.count
AvgConfidence(data) == [num |-> data.confidence, den |-> data.count]

Greater(a, b) == a.num * b.den > b.num * a.den
SameValue(a, b) == a.num * b.den = b.num * a.den
Zero == [num |-> 0, den |-> 1]

\* lines 575-581: the entries pushed to alternativeTypes
Alternatives(counts) ==
    [k \in DOMAIN counts |->
        [productTypeId |-> counts[k].typeId, confidence |-> AvgConfidence(counts[k])]]

\* a selection that keeps the entry of lowest confidence
RECURSIVE WorstType(_, _)
WorstType(entries, best) ==
    IF entries = <<>> THEN best
    ELSE WorstType(Tail(entries),
                   IF \/ best.productTypeId = "custom"
                      \/ Greater(best.confidence, Head(entries).confidence)
                   THEN Head(entries) ELSE best)

\* lines 571-572, 583-586: the best type over the entries, from "custom" and 0
RECURSIVE BestType(_, _)
BestType(entries, best) ==
    IF entries = <<>> THEN best
    ELSE BestType(Tail(entries),
                  IF Greater(Head(entries).confidence, best.confidence)
                  THEN Head(entries) ELSE best)

\* line 590: e put into a sequence sorted by descending confidence, after
\* the entries that compare equal (the sort is stable)
InsertSorted(sorted, e) ==
    LET before == { k \in DOMAIN sorted : ~Greater(e.confidence, sorted[k].confidence) }
        n == Cardinality(before)
    IN SubSeq(sorted, 1, n) \o <<e>> \o SubSeq(sorted, n + 1, Len(sorted))

RECURSIVE SortByConfidence(_, _)
SortByConfidence(entries, sorted) ==
    IF entries = <<>> THEN sorted
    ELSE SortByConfidence(Tail(entries), InsertSorted(sorted, Head(entries)))

\* lines 547-597: the result detectProductType returns for the predictions
DetectionResult(preds, confidenceThreshold) ==
    LET filtered == FilteredPredictions(preds, confidenceThreshold)
        counts == ProductTypeCounts(filtered, <<>>)
        best == BestType(Alternatives(counts),
                         [productTypeId |-> "custom", confidence |-> Zero])
    IN [productTypeId |-> best.productTypeId,
        confidence |-> best.confidence,
        detectedLabels |-> [k \in DOMAIN filtered |-> filtered[k].className],
        alternativeTypes |-> SortByConfidence(Alternatives(counts), <<>>)]

\* the characters of a class name
LabelText(className) ==
    CASE className = "ski" -> <<"s", "k", "i">>
      [] className = "kite" -> <<"k", "i", "t", "e">>
      [] className = "toy" -> <<"t", "o", "y">>
      [] className = "ice cream, icecream" ->
            <<"i", "c", "e", " ", "c", "r", "e", "a", "m", ",", " ",
              "i", "c", "e", "c", "r", "e", "a", "m">>

\* String.prototype.split: the pieces of text between the separators
RECURSIVE Split(_, _, _)
Split(text, sep, piece) ==
    IF text = <<>> THEN <<piece>>
    ELSE IF Head(text) = sep THEN <<piece>> \o Split(Tail(text), sep, <<>>)
    ELSE Split(Tail(text), sep, Append(piece, Head(text)))

\* String.prototype.trim
RECURSIVE Trim(_)
Trim(text) ==
    IF text = <<>> THEN text
    ELSE IF Head(text) = " " THEN Trim(Tail(text))
    ELSE IF text[Len(text)] = " " THEN Trim(SubSeq(text, 1, Len(text) - 1))
    ELSE text

\* String.prototype.toUpperCase on one character
ToUpperCase(ch) ==
    CASE ch = "s" -> "S" [] ch = "k" -> "K" [] ch = "t" -> "T"
      [] ch = "i" -> "I" [] ch = "c" -> "C" [] OTHER -> ch

\* line 615: word.charAt(0).toUpperCase() + word.slice(1)
Capitalize(word) ==
    IF word = <<>> THEN word ELSE <<ToUpperCase(Head(word))>> \o Tail(word)

\* Array.prototype.join(' ')
RECURSIVE Join(_)
Join(words) ==
    IF words = <<>> THEN <<>>
    ELSE IF Len(words) = 1 THEN Head(words)
    ELSE Head(words) \o <<" ">> \o Join(Tail(words))

\* lines 606-617: the name suggested for the labels
GetProductNameSuggestion(labels) ==
    IF Len(labels) = 0 THEN <<>>
    ELSE LET baseLabel == Trim(Split(LabelText(labels[1]), ",", <<>>)[1])
             words == Split(baseLabel, " ", <<>>)
         IN Join([k \in DOMAIN words |-> Capitalize(words[k])])

NoRun == [threshold |-> -1, count |-> -1, best |-> ""]

\* lines 412-415 with product-type-detector.tsx line 164
UpdateDetectionSettings(confidenceThreshold) ==
    /\ currentSettings.confidenceThreshold # confidenceThreshold
    /\ currentSettings' = [currentSettings EXCEPT !.confidenceThreshold = confidenceThreshold]
    /\ UNCHANGED <<cacheVars, flowVars, px, rb, crop, heur, det>>

\* lines 538-545: the model answered an image with the predictions preds
ClassifyImage(preds) ==
    /\ det.pc = "idle"
    /\ det' = [pc |-> "aggregate", preds |-> preds, prev |-> NoRun]
    /\ UNCHANGED <<cacheVars, flowVars, px, rb, crop, heur, currentSettings>>

\* lines 547-597, and product-type-detector.tsx lines 122-128: the name the
\* detector keeps for the result
ClassifyAggregate ==
    /\ det.pc = "aggregate"
    /\ LET result == DetectionResult(det.preds, currentSettings.confidenceThreshold)
       IN det' = [pc |-> "done", preds |-> det.preds, prev |-> det.prev,
                  threshold |-> currentSettings.confidenceThreshold,
                  result |-> result,
                  suggestedName |-> GetProductNameSuggestion(result.detectedLabels)]
    /\ UNCHANGED <<cacheVars, flowVars, px, rb, crop, heur, currentSettings>>

\* the same image is detected again and the model answers as before; prev
\* (history) is the threshold, the number of alternatives and the best type
\* of the last run
ClassifyAgain ==
    /\ det.pc = "done"
    /\ det' = [pc |-> "aggregate", preds |-> det.preds,
               prev |-> [threshold |-> det.threshold,
                         count |-> Len(det.result.alternativeTypes),
                         best |-> det.result.productTypeId]]
    /\ UNCHANGED <<cacheVars, flowVars, px, rb, crop, heur, currentSettings>>

(***************************************************************************)
(* Batch runs: processBatch of upload-section.tsx (lines 185-243) and of   *)
(* tryon-section.tsx (lines 248-306), processImages of batch-detection.tsx *)
(* (lines 84-133).  bad is the set of images whose processing rejects, or  *)
(* that fail to decode.                                                    *)
(***************************************************************************)
BatchSize == 3    \* images of a batch
BatchSections == {"upload", "tryon"}
BatchInputs ==
    UNION { { [n |-> n, bad |-> bad] : bad \in SUBSET (1..n) } : n \in 1..BatchSize }

\* upload-section.tsx lines 186-197: uploadedImages.length = 0 returns at
\* once; otherwise the loop starts with the first image
ProcessBatch(section, input) ==
    /\ batch.pc = "idle"
    /\ batch' = [pc |-> "processImage", kind |-> section, n |-> input.n,
                 bad |-> input.bad, i |-> 1,
                 processed |-> [k \in 1..input.n |-> FALSE], outcome |-> "none"]
    /\ UNCHANGED <<cacheVars, px, rb, crop, heur, currentSettings, det, pipe, grad, detector, prog>>

\* lines 202-225: processImage resolved for image i; the loop goes on, or
\* ends with the toast of lines 227-230
BatchItemResolved ==
    /\ batch.pc = "processImage"
    /\ batch.i \notin batch.bad
    /\ batch' = IF batch.i = batch.n
                THEN [batch EXCEPT !.processed[batch.i] = TRUE, !.pc = "done",
                                   !.outcome = "complete"]
                ELSE [batch EXCEPT !.processed[batch.i] = TRUE, !.i = batch.i + 1]
    /\ UNCHANGED <<cacheVars, px, rb, crop, heur, currentSettings, det, pipe, grad, detector, prog>>

\* lines 202-213, 232-243: processImage rejected for image i; the catch
\* around the whole loop, then finally
BatchItemRejected ==
    /\ batch.pc = "processImage"
    /\ batch.i \in batch.bad
    /\ batch' = [batch EXCEPT !.pc = "done", !.outcome = "failed"]
    /\ UNCHANGED <<cacheVars, px, rb, crop, heur, currentSettings, det, pipe, grad, detector, prog>>

\* batch-detection.tsx lines 85-113: the images are loaded into elements
ProcessImages(input) ==
    /\ batch.pc = "idle"
    /\ batch' = [pc |-> "loadImages", kind |-> "detection", n |-> input.n,
                 bad |-> input.bad]
    /\ UNCHANGED <<cacheVars, px, rb, crop, heur, currentSettings, det, pipe, grad, detector, prog>>

\* lines 99-111: every promise resolves in onload; there is no onerror, so
\* Promise.all settles only when every image decoded
ImagesLoaded ==
    /\ batch.pc = "loadImages"
    /\ batch.bad = {}
    /\ batch' = [batch EXCEPT !.pc = "batchDetect"]
    /\ UNCHANGED <<cacheVars, px, rb, crop, heur, currentSettings, det, pipe, grad, detector, prog>>

\* lines 116-128: batchDetectProductTypes resolved with one result or null
\* per image
BatchDetected(results) ==
    /\ batch.pc = "batchDetect"
    /\ batch' = [pc |-> "done", kind |-> "detection", n |-> batch.n, bad |-> batch.bad,
                 results |-> results, outcome |-> "success"]
    /\ UNCHANGED <<cacheVars, px, rb, crop, heur, currentSettings, det, pipe, grad, detector, prog>>

\* lines 129-133: batchDetectProductTypes rejected
BatchDetectRejected ==
    /\ batch.pc = "batchDetect"
    /\ batch' = [pc |-> "done", kind |-> "detection", n |-> batch.n, bad |-> batch.bad,
                 results |-> <<>>, outcome |-> "error"]
    /\ UNCHANGED <<cacheVars, px, rb, crop, heur, currentSettings, det, pipe, grad, detector, prog>>

(***************************************************************************)
(* handleGenerate of image-generator.tsx (lines 153-218) with generateImage *)
(* of api.ts (lines 23-84) and processImage (image-processing.ts 527-584). *)
(* An image is the sequence of the stages that produced it from the        *)
(* product image <<>>.                                                     *)
(***************************************************************************)
\* the component's state when Generate is pressed: mockSelected is
\* generationModel = MOCK, hasKey is a Hugging Face key in localStorage;
\* isApiKeyValid is set only for a saved key (image-generator.tsx 80, 275)
GenerateOptions ==
    { opts \in [showBackgroundOptions : BOOLEAN, autoCrop : BOOLEAN,
                backgroundRemoved : BOOLEAN, mockSelected : BOOLEAN,
                isApiKeyValid : BOOLEAN, hasKey : BOOLEAN] :
        opts.isApiKeyValid => opts.hasKey }

\* the stages one handleGenerate call awaits, in the order it awaits them:
\* image-generator.tsx 180-191 (replaceBackground), then in generateImage
\* api.ts 28-34 with image-processing.ts 551-575 (autoCrop, removeBackground),
\* then api.ts 43-61 (the generation call).  handleGenerate passes the chosen
\* model as generationModel and generateImage reads params.modelType, so
\* the mock branch of line 46 is never taken; without a stored key line 53
\* answers with the mock image
StagesOf(opts) ==
    (IF opts.showBackgroundOptions THEN <<"replaceBackground">> ELSE <<>>)
    \o (IF opts.autoCrop THEN <<"autoCrop">> ELSE <<>>)
    \o (IF opts.backgroundRemoved THEN <<"removeBackground">> ELSE <<>>)
    \o (IF opts.hasKey THEN <<"generate">> ELSE <<>>)

\* api.ts 36, 113-122: the request carries the prompt, which
\* createPromptFromParams builds without reading the processed image
Prompt == <<"prompt">>

\* what the stage is called with when image is the current image
StageInput(stage, image) == IF stage = "generate" THEN Prompt ELSE image

\* the run after the stages before number k resolved: stage k starts, or
\* the call ends
PipeAt(opts, k, image, trace) ==
    IF k > Len(StagesOf(opts))
    THEN [pc |-> "done", opts |-> opts, k |-> k, image |-> image, trace |-> trace,
          outcome |-> IF opts.hasKey THEN "generated" ELSE "mock"]
    ELSE [pc |-> "await", opts |-> opts, k |-> k, image |-> image,
          trace |-> Append(trace, [stage |-> StagesOf(opts)[k],
                                   input |-> StageInput(StagesOf(opts)[k], image)]),
          outcome |-> "none"]

\* image-generator.tsx 153-191: a product image is set; without a valid key
\* and with a model other than the mock one the call returns at line 171
HandleGenerate(opts) ==
    /\ pipe.pc = "idle"
    /\ pipe' = IF opts.mockSelected \/ opts.isApiKeyValid
               THEN PipeAt(opts, 1, <<>>, <<>>)
               ELSE [pc |-> "done", opts |-> opts, k |-> 0, image |-> <<>>,
                     trace |-> <<>>, outcome |-> "apiKeyRequired"]
    /\ UNCHANGED <<cacheVars, px, rb, crop, heur, currentSettings, det, batch, grad, detector, prog>>

\* the awaited stage resolved with its output.  The removeBackground of
\* image-processing.ts line 568 is the boolean option of line 539, which
\* hides the function of line 146: the call throws a TypeError and the
\* stage never resolves
StageResolved ==
    /\ pipe.pc = "await"
    /\ StagesOf(pipe.opts)[pipe.k] # "removeBackground"
    /\ pipe' = PipeAt(pipe.opts, pipe.k + 1,
                      Append(pipe.image, StagesOf(pipe.opts)[pipe.k]), pipe.trace)
    /\ UNCHANGED <<cacheVars, px, rb, crop, heur, currentSettings, det, batch, grad, detector, prog>>

\* the awaited stage rejected: api.ts 75-84 answers a Hugging Face API error
\* of the generation call with the mock image and rethrows everything else,
\* which image-generator.tsx 211-218 reports
StageRejected(apiError) ==
    /\ pipe.pc = "await"
    /\ apiError => StagesOf(pipe.opts)[pipe.k] = "generate"
    /\ pipe' = [pipe EXCEPT !.pc = "done",
                            !.outcome = IF apiError THEN "mock" ELSE "failed"]
    /\ UNCHANGED <<cacheVars, px, rb, crop, heur, currentSettings, det, batch, grad, detector, prog>>

(***************************************************************************)
(* The gradient background of replaceBackground, background-replacement.ts *)
(* lines 101-118.  A color stop offset is the fraction num / den; 0 / 0 is  *)
(* the NaN that index / (colors.length - 1) gives for one color.           *)
(***************************************************************************)
MaxStops == 3      \* colors of a gradient
CanvasMax == 2     \* width and height of the canvas
Directions == {"to bottom", "to right", "to bottom right", "to bottom left"}

\* lines 103-108: the arguments of ctx.createLinearGradient
GradientLine(direction, width, height) ==
    [x0 |-> 0, y0 |-> 0,
     x1 |-> IF direction = "to right" THEN width ELSE 0,
     y1 |-> IF direction = "to bottom" THEN height ELSE 0]

\* an offset that spreads the colors over 0 .. 1 and gives one color offset 0
StopOffsetGuarded(index, length) ==
    IF length = 1 THEN [num |-> 0, den |-> 1] ELSE [num |-> index, den |-> length - 1]

\* line 113: index / (colors.length - 1), index from 0
StopOffset(index, length) == [num |-> index, den |-> length - 1]

\* CanvasGradient.addColorStop: a non-finite offset is a TypeError, one
\* outside 0 .. 1 an IndexSizeError
OffsetAccepted(offset) ==
    /\ offset.den # 0
    /\ 0 <= offset.num /\ offset.num <= offset.den

\* lines 111-114: the offsets of the stops added before the first throw
RECURSIVE AddColorStops(_, _, _)
AddColorStops(index, length, stops) ==
    IF index = length THEN [stops |-> stops, thrown |-> FALSE]
    ELSE IF ~OffsetAccepted(StopOffset(index, length))
    THEN [stops |-> stops, thrown |-> TRUE]
    ELSE AddColorStops(index + 1, length, Append(stops, StopOffset(index, length)))

\* line 101: the gradient case is entered with the canvas the size of the cutout
GradientCase(direction, length, width, height) ==
    /\ grad.pc = "idle"
    /\ grad' = [pc |-> "createLinearGradient", direction |-> direction,
                length |-> length, width |-> width, height |-> height]
    /\ UNCHANGED <<cacheVars, px, rb, crop, heur, currentSettings, det, batch, pipe, detector, prog>>

\* lines 103-108
CreateLinearGradient ==
    /\ grad.pc = "createLinearGradient"
    /\ grad' = [pc |-> "addColorStops", direction |-> grad.direction,
                length |-> grad.length, width |-> grad.width, height |-> grad.height,
                line |-> GradientLine(grad.direction, grad.width, grad.height)]
    /\ UNCHANGED <<cacheVars, px, rb, crop, heur, currentSettings, det, batch, pipe, detector, prog>>

\* lines 111-117, and 204-207 when addColorStop throws: a gradient whose
\* two points coincide paints nothing
FillGradient ==
    /\ grad.pc = "addColorStops"
    /\ LET added == AddColorStops(0, grad.length, <<>>)
       IN grad' = [pc |-> IF added.thrown THEN "failed" ELSE "filled",
                   direction |-> grad.direction, length |-> grad.length,
                   width |-> grad.width, height |-> grad.height, line |-> grad.line,
                   stops |-> added.stops,
                   painted |-> /\ ~added.thrown
                               /\ <<grad.line.x0, grad.line.y0>> # <<grad.line.x1, grad.line.y1>>]
    /\ UNCHANGED <<cacheVars, px, rb, crop, heur, currentSettings, det, batch, pipe, detector, prog>>

(***************************************************************************)
(* ProductTypeDetector's mount effect, product-type-detector.tsx lines     *)
(* 50-98, with preloadProductDetectionModel (api-key-settings.tsx 625-627) *)
(* and cacheDefaultMobileNetModel (image-processing.ts 879-902).           *)
(* preload is how the promise of preloadProductDetectionModel settled;     *)
(* failed (history) is whether the download or the save failed.            *)
(***************************************************************************)
DetectorUnmounted ==
    [pc |-> "idle", isModelReady |-> FALSE, error |-> FALSE, preload |-> "none",
     failed |-> FALSE]

\* product-type-detector.tsx 51-68: the effect starts the preload
DetectorMount ==
    /\ detector.pc = "idle"
    /\ detector' = [detector EXCEPT !.pc = "preload"]
    /\ UNCHANGED <<cacheVars, px, rb, crop, heur, currentSettings, det, batch, pipe, grad, prog>>

\* image-processing.ts 882-897: the model was downloaded and saved
PreloadCached ==
    /\ detector.pc = "preload"
    /\ detModelStored' = TRUE
    /\ detector' = [detector EXCEPT !.pc = "mounted", !.preload = "resolved",
                                    !.isModelReady = TRUE]
    /\ UNCHANGED <<performanceConfig, modelCache, loadCount, tfBackend, tfEnv, webglOK,
                   call, last, resolved, px, rb, crop, heur, currentSettings, det,
                   batch, pipe, grad, prog>>

\* image-processing.ts 882-901: the import, the download or the save failed;
\* the catch of lines 898-901 logs the error and returns null, line 626 of
\* api-key-settings.tsx awaits that and resolves, and the component goes on
\* with lines 69-70
PreloadFailed ==
    /\ detector.pc = "preload"
    /\ detector' = [detector EXCEPT !.pc = "mounted", !.preload = "resolved",
                                    !.failed = TRUE, !.isModelReady = TRUE]
    /\ UNCHANGED <<cacheVars, px, rb, crop, heur, currentSettings, det, batch, pipe, grad, prog>>

\* the component is unmounted and mounted again (isModelReady starts false)
DetectorRemount ==
    /\ detector.pc = "mounted"
    /\ detector' = DetectorUnmounted
    /\ UNCHANGED <<cacheVars, px, rb, crop, heur, currentSettings, det, batch, pipe, grad, prog>>

(***************************************************************************)
(* The progress reports of one processImage call, image-processing.ts      *)
(* lines 527-584, through autoCropImage (370-524) and loadModel (86-143).  *)
(* A fraction is in thousandths.                                           *)
(***************************************************************************)
ProcessOptions == [autoCrop : BOOLEAN, removeBackground : BOOLEAN]

\* lines 551-575: the stages processImage enters, in order
ProcessStages(opts) ==
    (IF opts.autoCrop THEN <<"autoCropImage">> ELSE <<>>)
    \o (IF opts.removeBackground THEN <<"removeBackground">> ELSE <<>>)

\* lines 556-557: what the callback handed to autoCropImage passes on for
\* its report p
ScaledProgress(currentProgress, p) == currentProgress + (p * 500) \div 1000

\* lines 102, 119, 128, 135: what loadModel reports before it awaits the
\* load; nothing when the model is cached (lines 91-97)
LoadReports(cached) == IF cached THEN <<>> ELSE <<100, 300>>

\* the reports of autoCropImage between two awaits.  step 0: up to the await
\* of initTensorFlow (lines 382-383); 1: up to the await inside loadModel
\* (386-387, 102-135); 2: the report after the load (122, 131, 138) and up
\* to the await of the image (390); 3: up to the await of the segmentation
\* (403); 4: the rest (466, 503, 512)
StageReports(step, loading) ==
    CASE step = 0 -> <<100>>
      [] step = 1 -> <<200>> \o LoadReports(~loading)
      [] step = 2 -> (IF loading THEN <<1000>> ELSE <<>>) \o <<500>>
      [] step = 3 -> <<700>>
      [] step = 4 -> <<800, 900, 1000>>

\* the reports passed on to the caller's progressCallback
Scaled(currentProgress, raw) ==
    [k \in DOMAIN raw |-> ScaledProgress(currentProgress, raw[k])]

\* lines 547-579 after the stages before number k returned: stage k starts
\* with the report of line 553 or 567 and runs to its first await, or the
\* call ends with the report of line 577.  Inside processImage the name
\* removeBackground is the boolean option of line 539, which hides the
\* function of line 146: line 568 calls `true`, a TypeError that the catch
\* of lines 580-583 turns into the rejection of the call
ProgAt(rec, k, reports) ==
    IF k > Len(ProcessStages(rec.opts))
    THEN [rec EXCEPT !.pc = "done", !.k = k, !.reports = Append(reports, 1000)]
    ELSE LET currentProgress == IF k = 1 THEN 0 ELSE 500
         IN IF ProcessStages(rec.opts)[k] = "removeBackground"
            THEN [rec EXCEPT !.pc = "failed", !.k = k,
                             !.currentProgress = currentProgress,
                             !.reports = reports \o <<currentProgress>>]
            ELSE [rec EXCEPT !.pc = "await", !.k = k, !.step = 1, !.loading = FALSE,
                             !.currentProgress = currentProgress,
                             !.reports = reports \o <<currentProgress>>
                                         \o Scaled(currentProgress,
                                                   StageReports(0, FALSE))]

\* processImage(imageUrl, options) with modelType, the model being in the
\* cache or not
ProcessImage(opts, modelType, cached) ==
    /\ prog.pc = "idle"
    /\ prog' = ProgAt([pc |-> "idle", opts |-> opts, modelType |-> modelType,
                       cached |-> cached, k |-> 0, step |-> 0, loading |-> FALSE,
                       currentProgress |-> 0, reports |-> <<>>], 1, <<>>)
    /\ UNCHANGED <<cacheVars, px, rb, crop, heur, currentSettings, det, batch, pipe, grad,
                   detector>>

\* the promise autoCropImage awaits resolved: it runs to its next await or
\* returns (line 513) and processImage goes on at line 560
ProgResolved ==
    /\ prog.pc = "await"
    /\ LET loading == IF prog.step = 1 THEN ~prog.cached ELSE prog.loading
           reports == prog.reports
                      \o Scaled(prog.currentProgress, StageReports(prog.step, loading))
           cached == prog.cached \/ prog.step = 2
       IN prog' =
            IF prog.step < 4
            THEN [prog EXCEPT !.step = prog.step + 1, !.loading = loading,
                              !.cached = cached, !.reports = reports]
            ELSE ProgAt(prog, prog.k + 1, reports)
    /\ UNCHANGED <<cacheVars, px, rb, crop, heur, currentSettings, det, batch, pipe, grad,
                   detector>>

\* the promise autoCropImage awaits rejected (a cached model is returned
\* without a load that could fail): lines 520-523 and 580-583
ProgRejected ==
    /\ prog.pc = "await"
    /\ prog.step = 2 => prog.loading
    /\ prog' = [prog EXCEPT !.pc = "failed"]
    /\ UNCHANGED <<cacheVars, px, rb, crop, heur, currentSettings, det, batch, pipe, grad,
                   detector>>

ProgIdle == [pc |-> "idle"]
BatchIdle == [pc |-> "idle"]
PipeIdle == [pc |-> "idle"]
GradIdle == [pc |-> "idle"]
PxIdle == [pc |-> "idle"]
RbIdle == [pc |-> "idle"]
CropIdle == [pc |-> "idle"]
HeurIdle == [pc |-> "idle"]
DetIdle == [pc |-> "idle"]
\* api-key-settings.tsx lines 402-406; the threshold in percent
DefaultDetectionSettings == [confidenceThreshold |-> 20]


InitCommon ==
    /\ performanceConfig = DefaultPerformanceConfig
    /\ modelCache = [k \in SegmentationModel |-> NoHandle]
    /\ loadCount = 0
    /\ tfBackend = "none"
    /\ tfEnv = [f16 |-> FALSE, del |-> -1]
    /\ call = [c \in Calls |-> IdleCall]
    /\ last = NoResult
    /\ detModelStored = FALSE
    /\ resolved = [k \in SegmentationModel |-> 0]
    /\ px = PxIdle
    /\ rb = RbIdle
    /\ crop = CropIdle
    /\ heur = HeurIdle
    /\ currentSettings = DefaultDetectionSettings
    /\ det = DetIdle
    /\ batch = BatchIdle
    /\ pipe = PipeIdle
    /\ grad = GradIdle
    /\ detector = DetectorUnmounted
    /\ prog = ProgIdle

(***************************************************************************)
(* SpecTF: sequences of initTensorFlow(config) calls by one caller         *)
(***************************************************************************)
InitTF == InitCommon /\ webglOK \in BOOLEAN

NextTF ==
    \/ \E patch \in ConfigPatches, hasName \in BOOLEAN : CallInitTensorFlow(1, patch, hasName)
    \/ TfResumeSet(1)
    \/ TfResumeGl(1)
    \/ TfResumeWasm(1)

SpecTF == InitTF /\ [][NextTF]_vars

(***************************************************************************)
(* Spec: concurrent callers of loadModel, profile changes, cache clears    *)
(***************************************************************************)
Init == InitCommon /\ webglOK = TRUE

Next ==
    \/ \E c \in Calls, k \in SegmentationModel : CallLoadModel(c, k)
    \/ \E c \in Calls : LoadResolve(c)
    \/ \E c \in Calls : LoadFail(c)
    \/ \E c \in Calls : CallDetectProductType(c)
    \/ \E c \in Calls : DetExists(c)
    \/ \E c \in Calls : DetCacheOk(c)
    \/ \E c \in Calls : DetCacheFail(c)
    \/ \E c \in Calls : DetIdbOk(c)
    \/ \E c \in Calls : DetIdbFail(c)
    \/ \E c \in Calls : DetDirectOk(c)
    \/ \E c \in Calls : DetDirectFail(c)
    \/ ClearModelCache

Spec == Init /\ [][Next]_vars

(***************************************************************************)
(* SpecProfile: caller 2 loads models while caller 1 changes the profile   *)
(* through initTensorFlow(config) and the panels call                      *)
(* updatePerformanceConfig                                                 *)
(***************************************************************************)
InitProfile == InitCommon /\ webglOK = TRUE

NextProfile ==
    \/ \E k \in SegmentationModel : CallLoadModel(2, k)
    \/ LoadResolve(2)
    \/ LoadFail(2)
    \/ \E patch \in PrecisionPatches : UpdatePerformanceConfig(patch)
    \/ \E patch \in PrecisionPatches, hasName \in BOOLEAN : CallInitTensorFlow(1, patch, hasName)
    \/ TfResumeGl(1)
    \/ ClearModelCache

SpecProfile == InitProfile /\ [][NextProfile]_vars

(***************************************************************************)
(* SpecSeg: removeBackground / autoCropImage calls of one caller, with     *)
(* clearModelCache running at any await of the call                        *)
(***************************************************************************)
InitSeg == InitCommon /\ webglOK \in BOOLEAN

NextSeg ==
    \/ \E op \in SegmentationOps, k \in SegmentationModel, hasName \in BOOLEAN :
          CallSegmentation(1, op, k, hasName)
    \/ TfResumeSet(1)
    \/ TfResumeGl(1)
    \/ SegLoadModel(1)
    \/ LoadResolve(1)
    \/ LoadFail(1)
    \/ SegStartImage(1)
    \/ SegImageLoaded(1)
    \/ SegImageError(1)
    \/ SegDone(1)
    \/ ClearModelCache

SpecSeg == InitSeg /\ [][NextSeg]_vars

(***************************************************************************)
(* SpecPixels: removeBackground's canvas work on small images              *)
(***************************************************************************)
InitPixels == InitCommon /\ webglOK = TRUE

NextPixels ==
    \/ \E kind \in MaskKinds, img \in [Positions -> SourceColors],
          data \in [Positions -> {0, 1}],
          fgOpt \in ForegroundOptions, bgOpt \in BackgroundOptions :
          PxCall(kind, img, data, fgOpt, bgOpt)
    \/ PxReapply
    \/ PxBuildMask
    \/ PxComposite
    \/ PxFlatten

SpecPixels == InitPixels /\ [][NextPixels]_vars

(***************************************************************************)
(* SpecReplace: replaceBackground on small images                          *)
(***************************************************************************)
InitReplace == InitCommon /\ webglOK = TRUE

NextReplace ==
    \/ \E type \in BackgroundTypes, hasImage \in BOOLEAN, kind \in MaskKinds,
          img \in [Positions -> SourceColors], data \in [Positions -> {0, 1}],
          render \in [Positions -> BackgroundColors] :
          RbCall(type, hasImage, kind, img, data, render)
    \/ \E ok \in BOOLEAN : RbRemoved(ok)
    \/ RbForegroundLoaded
    \/ RbForegroundError
    \/ RbBackgroundLoaded
    \/ RbBackgroundError
    \/ RbOriginalLoaded
    \/ RbOriginalError

SpecReplace == InitReplace /\ [][NextReplace]_vars

(***************************************************************************)
(* SpecCrop: the bounding box of autoCropImage on small masks              *)
(***************************************************************************)
InitCrop == InitCommon /\ webglOK = TRUE

NextCrop ==
    \/ \E mask \in GridMasks, padding \in Paddings : CropCall(mask, padding)
    \/ CropBox
    \/ CropPad
    \/ CropSize

SpecCrop == InitCrop /\ [][NextCrop]_vars

(***************************************************************************)
(* SpecHeur: the edge-colour segmentation on small images                  *)
(***************************************************************************)
InitHeur == InitCommon /\ webglOK = TRUE

NextHeur ==
    \/ /\ heur.pc = "idle"
       /\ \E image \in HeurImages, threshold \in Thresholds : HeurCall(image, threshold)
    \/ HeurEdges
    \/ HeurMask

SpecHeur == InitHeur /\ [][NextHeur]_vars

(***************************************************************************)
(* SpecDetect: detectProductType's aggregation on small prediction sets    *)
(***************************************************************************)
InitDetect == InitCommon /\ webglOK = TRUE

NextDetect ==
    \/ \E t \in DetectionThresholds : UpdateDetectionSettings(t)
    \/ \E preds \in TopPredictions : ClassifyImage(preds)
    \/ ClassifyAggregate
    \/ ClassifyAgain

SpecDetect == InitDetect /\ [][NextDetect]_vars

(***************************************************************************)
(* SpecBatch: one batch run of a component                                 *)
(***************************************************************************)
InitBatch == InitCommon /\ webglOK = TRUE

NextBatch ==
    \/ \E section \in BatchSections, input \in BatchInputs : ProcessBatch(section, input)
    \/ BatchItemResolved
    \/ BatchItemRejected
    \/ \E input \in BatchInputs : ProcessImages(input)
    \/ ImagesLoaded
    \/ /\ batch.pc = "batchDetect"
       /\ \E results \in [1..batch.n -> {"result", "null"}] : BatchDetected(results)
    \/ BatchDetectRejected

SpecBatch == InitBatch /\ [][NextBatch]_vars

(***************************************************************************)
(* SpecPipeline: one handleGenerate call                                   *)
(***************************************************************************)
InitPipeline == InitCommon /\ webglOK = TRUE

NextPipeline ==
    \/ \E opts \in GenerateOptions : HandleGenerate(opts)
    \/ StageResolved
    \/ \E apiError \in BOOLEAN : StageRejected(apiError)

SpecPipeline == InitPipeline /\ [][NextPipeline]_vars

(***************************************************************************)
(* SpecProgress: one processImage call and its progress reports            *)
(***************************************************************************)
InitProgress == InitCommon /\ webglOK = TRUE

NextProgress ==
    \/ \E opts \in ProcessOptions, modelType \in SegmentationModel, cached \in BOOLEAN :
          ProcessImage(opts, modelType, cached)
    \/ ProgResolved
    \/ ProgRejected

SpecProgress == InitProgress /\ [][NextProgress]_vars

(***************************************************************************)
(* SpecPreload: the detector component preloads the detection model while  *)
(* detectProductType calls run                                             *)
(***************************************************************************)
InitPreload == InitCommon /\ webglOK = TRUE

NextPreload ==
    \/ DetectorMount
    \/ PreloadCached
    \/ PreloadFailed
    \/ DetectorRemount
    \/ \E c \in Calls :
          \/ CallDetectProductType(c)
          \/ DetExists(c)
          \/ DetCacheOk(c)
          \/ DetCacheFail(c)
          \/ DetIdbOk(c)
          \/ DetIdbFail(c)
          \/ DetDirectOk(c)
          \/ DetDirectFail(c)

SpecPreload == InitPreload /\ [][NextPreload]_vars

(***************************************************************************)
(* SpecGradient: the gradient case of replaceBackground                    *)
(***************************************************************************)
InitGradient == InitCommon /\ webglOK = TRUE

NextGradient ==
    \/ \E direction \in Directions, length \in 1..MaxStops,
          width \in 1..CanvasMax, height \in 1..CanvasMax :
          GradientCase(direction, length, width, height)
    \/ CreateLinearGradient
    \/ FillGradient

SpecGradient == InitGradient /\ [][NextGradient]_vars

(***************************************************************************)
(* Properties                                                              *)
(***************************************************************************)
Range(seq) == { seq[i] : i \in DOMAIN seq }

\* C1: when several loadModel calls of one kind are in flight at once (each
\* found the slot empty), they wait on one and the same underlying load.
C1_OneLoadPerKind ==
    \A c1, c2 \in Calls :
        (call[c1].pc = "lm_await" /\ call[c2].pc = "lm_await"
            /\ call[c1].kind = call[c2].kind)
        => call[c1].load.id = call[c2].load.id

\* C2: a loadModel call answered from the cache (so issued after the last
\* clear) never gets a model whose load was started before a clear, i.e. one
\* that was in flight when clearModelCache ran.
C2_NoStaleModelAfterClear ==
    (last.op = "loadModel" /\ last.status = "resolved" /\ last.load = NoHandle)
    => ~last.model.stale

\* C3: a loadModel call issued after a load of its kind resolved, with no
\* clear since, returns that same model and starts no load of its own.
C3_SameHandleUntilClear ==
    (last.op = "loadModel" /\ last.status = "resolved" /\ last.seen # 0)
    => (last.model.id = last.seen /\ last.load = NoHandle)

C5_ProfileChangeKeepsModels ==
    [][/\ performanceConfig' # performanceConfig
          => /\ modelCache' = modelCache
             /\ \A c \in Calls : call'[c].model = call[c].model /\ call'[c].load = call[c].load
       /\ \A k \in SegmentationModel :
             (modelCache[k] # NoHandle /\ modelCache'[k] # NoHandle
                 /\ modelCache'[k].id = modelCache[k].id)
             => modelCache'[k].cfg = modelCache[k].cfg
       /\ \A c \in Calls :
             (call[c].pc # "lm_await" /\ call'[c].pc = "lm_await")
             => call'[c].load.cfg = LoadParams(call'[c].kind, performanceConfig)]_vars

\* C5 witness: a cached model whose parameters are those of an earlier
\* profile, not of the current one.
C5_Witness ==
    \E k \in SegmentationModel :
        /\ modelCache[k] # NoHandle
        /\ modelCache[k].cfg # LoadParams(k, performanceConfig)

\* C6: the step in which a model load fails leaves the cache, the stored
\* classification model and every other call untouched; and the step in
\* which the classification model fails to load leaves the cache and every
\* other call untouched.
FailedLoadStep(c) ==
    /\ call[c].pc \in {"lm_await", "dp_idb", "dp_direct"}
    /\ call'[c].pc = "idle"
    /\ last'.status = "rejected"

C6_FailedLoadLeavesCache ==
    [][\A c \in Calls :
          FailedLoadStep(c)
          => /\ modelCache' = modelCache
             /\ detModelStored' = detModelStored
             /\ \A d \in Calls \ {c} : call'[d] = call[d]]_vars

\* C6 witness: a segmentation model load was rejected while another kind is
\* cached and the slot of the failed kind is empty.
C6_Witness ==
    /\ last.op = "loadModel" /\ last.status = "rejected"
    /\ modelCache[last.kind] = NoHandle
    /\ \E k \in SegmentationModel \ {last.kind} : modelCache[k] # NoHandle

\* C7: a rejection of removeBackground / autoCropImage caused by a failed
\* model load names the model kind in its message, and one caused by a
\* failed image decode names the image.
C7_MessageNamesKindOrImage ==
    (last.op \in SegmentationOps /\ last.status = "rejected")
    => /\ "Failed to load " \in Range(last.cause) => last.kind \in Range(last.err)
       /\ ErrImageEvent[1] \in Range(last.cause) => "Failed to load image: " \in Range(last.err)

\* C8: initTensorFlow is never rejected because the backend the profile asks
\* for cannot be used in this browser.
C8_InitNeverRejectsForBackend ==
    ~(last.op = "initTensorFlow" /\ last.status = "rejected"
        /\ last.cause \in {ErrNoGPGPU, ErrNotRegistered("wasm")})

\* C9: when an initTensorFlow call has completed (and no other is running),
\* WEBGL_FORCE_F16_TEXTURES is true exactly for precision low and
\* WEBGL_DELETE_TEXTURE_THRESHOLD is the one of the memoryManagement policy:
\* 0 for aggressive, 1000 for performance, the engine default for balanced.
C9_FlagsFollowProfile ==
    (call[1].pc = "idle" /\ last.op = "initTensorFlow" /\ last.status = "resolved")
    => /\ tfEnv.f16 = (performanceConfig.precision = "low")
       /\ tfEnv.del = CASE performanceConfig.memoryManagement = "aggressive" -> 0
                        [] performanceConfig.memoryManagement = "performance" -> 1000
                        [] OTHER -> -1

\* C10: when removeBackground has produced its output, every position the
\* mask classifies as foreground shows the source pixel, and every position
\* it classifies as background shows the background color, or is transparent
\* when the background color has alpha 0.
C10_OutputFollowsMask ==
    (px.pc = "done" /\ px.round = 0)
    => \A i \in Positions :
          px.out[i] = IF px.data[i] = 1 THEN px.img[i]
                      ELSE FillPixel(px.backgroundColor)

\* C12: removeBackground applied to its own output, with the same mask and
\* colors, returns that output unchanged.
C12_RemoveBackgroundIdempotent ==
    (px.pc = "done" /\ px.round > 0) => px.out = px.prev

\* C11: the image replaceBackground returns shows the source pixel at every
\* foreground position of the mask and the rendered background at every
\* background position.
C11_ReplaceKeepsForeground ==
    rb.pc = "done"
    => \A i \in Positions :
          rb.out[i] = IF rb.data[i] = 1 THEN [c |-> rb.img[i], a |-> 255]
                      ELSE BackgroundCanvas(rb.type, rb.hasImage, rb.render)[i]

\* C15: replaceBackground resolves only when none of its image loads
\* failed, and a call that failed returns no image.
C15_FailedLoadRejectsReplace ==
    /\ rb.pc = "done" => rb.loadError = "none"
    /\ rb.pc = "failed" => (rb.loadError # "none" /\ rb.out = <<>>)

\* C15 witness: a blur call was rejected because the original image failed
\* to decode, after the cutout had been made and decoded.
C15_Witness ==
    /\ rb.pc = "failed"
    /\ rb.loadError = "original"
    /\ rb.cutout # <<>>

BoxInImage(box) ==
    /\ 0 <= box.minX /\ box.minX <= box.maxX /\ box.maxX <= GridW
    /\ 0 <= box.minY /\ box.minY <= box.maxY /\ box.maxY <= GridH

\* C13: for every mask, the one without foreground included, the bounding
\* box lies in the image with min <= max on both axes, before and after the
\* padding.
C13_BoxInsideImage ==
    /\ crop.pc \in {"pad", "size", "done"} => BoxInImage(crop.box)
    /\ crop.pc \in {"size", "done"} => BoxInImage(crop.padded)

\* C14: for every mask with a foreground pixel and every padding, the crop
\* is at least 1 and at most the image's size on both axes.
C14_CropSizeInRange ==
    (crop.pc = "done" /\ \E i \in GridCells : crop.mask[i] = 1)
    => /\ 1 <= crop.cropWidth /\ crop.cropWidth <= GridW
       /\ 1 <= crop.cropHeight /\ crop.cropHeight <= GridH

\* C16: with threshold 0 the edge-colour heuristic classifies every pixel of
\* every image as foreground.
C16_ZeroThresholdAllForeground ==
    (heur.pc = "done" /\ heur.threshold = 0)
    => \A i \in HeurCells : heur.data[i] = 1

\* C16 (amended): with threshold 0 the edge-colour heuristic classifies a
\* pixel as foreground exactly when its colour differs from the average edge
\* value; a pixel whose three channels equal that average is background.
C16_ZeroThresholdForegroundIffDiffers ==
    (heur.pc = "done" /\ heur.threshold = 0)
    => \A i \in HeurCells :
          heur.data[i] = 1
          <=> ColorDiffTimes(heur.image[i], SumSeq(heur.edgePixels),
                             Len(heur.edgePixels)) # 0

\* C16 witness: a mask computed with threshold 0 that has a background
\* pixel next to foreground pixels.
C16_Witness ==
    /\ heur.pc = "done" /\ heur.threshold = 0
    /\ \E i, j \in HeurCells : heur.data[i] = 0 /\ heur.data[j] = 1

Categories == {"sports", "toys"}

\* the threshold-passing predictions of a run that map to category
Contributing(d, category) ==
    { i \in DOMAIN d.preds :
        /\ d.preds[i].probability >= d.threshold
        /\ ProductTypeMapping(d.preds[i].className) = category }

RECURSIVE SumOver(_, _)
SumOver(preds, S) ==
    IF S = {} THEN 0
    ELSE LET i == CHOOSE j \in S : TRUE
         IN preds[i].probability + SumOver(preds, S \ {i})

\* the arithmetic mean of the probabilities of the contributing predictions
MeanOf(d, category) ==
    [num |-> SumOver(d.preds, Contributing(d, category)),
     den |-> Cardinality(Contributing(d, category))]

\* C17: every category the result lists carries the arithmetic mean of the
\* probabilities of the threshold-passing predictions mapped to it, and the
\* result's confidence is that mean for productTypeId.
C17_ConfidenceIsMean ==
    det.pc = "done"
    => /\ \A k \in DOMAIN det.result.alternativeTypes :
             LET alt == det.result.alternativeTypes[k]
             IN /\ Contributing(det, alt.productTypeId) # {}
                /\ SameValue(alt.confidence, MeanOf(det, alt.productTypeId))
       /\ det.result.productTypeId # "custom"
             => /\ Contributing(det, det.result.productTypeId) # {}
                /\ SameValue(det.result.confidence, MeanOf(det, det.result.productTypeId))

\* C17 witness: a result whose best category got two contributing
\* predictions of different probabilities.
C17_Witness ==
    /\ det.pc = "done"
    /\ det.result.productTypeId # "custom"
    /\ \E i, j \in Contributing(det, det.result.productTypeId) :
          det.preds[i].probability # det.preds[j].probability

\* C18: the alternatives never contain the best category.
C18_AlternativesExcludeBest ==
    det.pc = "done"
    => \A k \in DOMAIN det.result.alternativeTypes :
          det.result.alternativeTypes[k].productTypeId # det.result.productTypeId

\* C19: the result is the sentinel "custom" with confidence 0 exactly when
\* no threshold-passing prediction maps to a category; otherwise it is a
\* category whose mean is the highest.
C19_BestOrCustom ==
    det.pc = "done"
    => IF \A c \in Categories : Contributing(det, c) = {}
       THEN det.result.productTypeId = "custom" /\ det.result.confidence = Zero
       ELSE /\ det.result.productTypeId \in Categories
            /\ Contributing(det, det.result.productTypeId) # {}
            /\ \A c \in Categories :
                  Contributing(det, c) # {}
                  => ~Greater(MeanOf(det, c), MeanOf(det, det.result.productTypeId))

\* C20: when the same predictions are aggregated again under a threshold
\* that is not lower, the alternatives list is not longer than before.
C20_HigherThresholdFewerAlternatives ==
    (det.pc = "done" /\ det.prev # NoRun /\ det.prev.threshold <= det.threshold)
    => Len(det.result.alternativeTypes) <= det.prev.count

\* C20 witness: a run under a raised threshold that lists fewer
\* alternatives than the run before.
C20_Witness ==
    /\ det.pc = "done" /\ det.prev # NoRun
    /\ det.prev.threshold < det.threshold
    /\ Len(det.result.alternativeTypes) < det.prev.count

\* the mean of the probabilities of all predictions mapped to category,
\* before any thresholding
RawEvidence(d, category) == MeanOf([preds |-> d.preds, threshold |-> 0], category)

\* the same predictions were aggregated again under a higher threshold and
\* the best category changed
BestChanged ==
    /\ det.pc = "done" /\ det.prev # NoRun
    /\ det.prev.threshold < det.threshold
    /\ det.result.productTypeId # det.prev.best

\* C21: raising the threshold never changes the best category to one with
\* lower raw evidence, unless every prediction contributing to the previous
\* best category was filtered out.
C21_BestNeverLosesRawEvidence ==
    BestChanged
    => \/ Contributing(det, det.prev.best) = {}
       \/ ~Greater(RawEvidence(det, det.prev.best),
                   RawEvidence(det, det.result.productTypeId))

\* C21 as the code has it: raising the threshold never changes the best
\* category to one whose mean over the predictions that pass the raised
\* threshold is lower than the previous best's mean over them, unless every
\* prediction contributing to the previous best category was filtered out.
C21_BestKeepsSurvivingEvidence ==
    BestChanged
    => \/ Contributing(det, det.prev.best) = {}
       \/ ~Greater(MeanOf(det, det.prev.best),
                   MeanOf(det, det.result.productTypeId))

\* C21 witness: the best category changed under a raised threshold although
\* the previous best category still has a contributing prediction.
C21_Witness ==
    /\ BestChanged
    /\ Contributing(det, det.prev.best) # {}

\* C22: the suggested name is derived from the highest-probability raw
\* label (first synonym, each word capitalised) under every threshold.
C22_NameFromTopRawLabel ==
    (det.pc = "done" /\ det.preds # <<>>)
    => det.suggestedName = GetProductNameSuggestion(<<det.preds[1].className>>)

\* C23: in a batch run a failure on one image is recorded for that image
\* only: every other image is still processed and the run completes.
C23_BatchSurvivesBadImage ==
    (batch.pc = "done" /\ batch.kind \in BatchSections)
    => /\ batch.outcome = "complete"
       /\ \A k \in 1..batch.n : k \notin batch.bad => batch.processed[k]

\* the place of a stage in the sequence auto-crop, background removal,
\* background replacement, generation call
StageRank(stage) ==
    CASE stage = "autoCrop" -> 1
      [] stage = "removeBackground" -> 2
      [] stage = "replaceBackground" -> 3
      [] stage = "generate" -> 4

\* C24: the stages of one pipeline run start in the sequence auto-crop,
\* background removal, background replacement, generation call, one at a
\* time, each on the output of the stage before it.
C24_StagesInSequence ==
    pipe.pc # "idle"
    => \A j \in DOMAIN pipe.trace :
          /\ \A i \in 1..(j - 1) :
                StageRank(pipe.trace[i].stage) < StageRank(pipe.trace[j].stage)
          /\ pipe.trace[j].input = [i \in 1..(j - 1) |-> pipe.trace[i].stage]

\* the backend a profile selects: the first of the flags lines 41-65 test
SelectedBackend(cfg) ==
    IF cfg.useWebGL THEN "webgl"
    ELSE IF cfg.useWasm THEN "wasm"
    ELSE IF cfg.useWebGPU THEN "webgpu"
    ELSE "none"

\* C25: when an initTensorFlow call has completed under a profile that
\* selects a backend, the active backend is the selected one.
C25_SelectedBackendActive ==
    (call[1].pc = "idle" /\ last.op = "initTensorFlow" /\ last.status = "resolved"
        /\ SelectedBackend(performanceConfig) # "none")
    => tfBackend = SelectedBackend(performanceConfig)

\* C26: for a mask with at least one foreground pixel, the region autoCropImage
\* crops (columns minX..minX+cropWidth-1, rows minY..minY+cropHeight-1)
\* contains every foreground pixel.
C26_CropContainsForeground ==
    crop.pc = "done"
    => \A x \in 0..(GridW - 1), y \in 0..(GridH - 1) :
          crop.mask[y * GridW + x] = 1
          => /\ crop.padded.minX <= x /\ x <= crop.padded.minX + crop.cropWidth - 1
             /\ crop.padded.minY <= y /\ y <= crop.padded.minY + crop.cropHeight - 1

\* the displacement from the start to the end of a line that spans a
\* width x height canvas along direction
SpanOf(direction, width, height) ==
    CASE direction = "to bottom" -> <<0, height>>
      [] direction = "to right" -> <<width, 0>>
      [] direction = "to bottom right" -> <<width, height>>
      [] direction = "to bottom left" -> <<-width, height>>

\* C27: for each direction the gradient line has distinct start and end
\* points that span the canvas along that direction.
C27_GradientLineSpansCanvas ==
    grad.pc \in {"addColorStops", "filled", "failed"}
    => /\ <<grad.line.x0, grad.line.y0>> # <<grad.line.x1, grad.line.y1>>
       /\ <<grad.line.x1 - grad.line.x0, grad.line.y1 - grad.line.y0>>
             = SpanOf(grad.direction, grad.width, grad.height)

\* C28: with N >= 1 colors the call does not fail, and stop i gets a
\* well-defined offset in [0,1], evenly spaced from 0 for the first stop.
C28_StopOffsetsDefined ==
    grad.pc \in {"filled", "failed"}
    => /\ grad.pc = "filled"
       /\ Len(grad.stops) = grad.length
       /\ \A k \in DOMAIN grad.stops :
             /\ grad.stops[k].den # 0
             /\ 0 <= grad.stops[k].num /\ grad.stops[k].num <= grad.stops[k].den
             /\ SameValue(grad.stops[k], StopOffsetGuarded(k - 1, grad.length))

\* C29: when downloading or caching the default model fails,
\* preloadProductDetectionModel rejects, and the component does not take
\* the detection model as ready.
C29_FailedPreloadRejects ==
    (detector.pc = "mounted" /\ detector.failed)
    => /\ detector.preload = "rejected"
       /\ ~detector.isModelReady

\* C30: the fractions one processImage call passes to progressCallback are
\* non-decreasing, within [0,1], and end with 1.0 when the call succeeds,
\* whatever the options and whether or not the model is cached.
C30_ProgressMonotone ==
    prog.pc # "idle"
    => /\ \A k \in DOMAIN prog.reports :
             /\ 0 <= prog.reports[k] /\ prog.reports[k] <= 1000
             /\ k > 1 => prog.reports[k - 1] <= prog.reports[k]
       /\ prog.pc = "done" => prog.reports[Len(prog.reports)] = 1000

====
